---- MODULE Spec2Model ----
(***************************************************************************)
(* Tournament bracket state machine of the ping-pong league application    *)
(* (app.py): the LeagueConfig phase, the signup table, the tournaments     *)
(* table and the tournament_matches table, driven by the Flask handlers.   *)
(***************************************************************************)
EXTENDS Integers, Sequences, FiniteSets, TLC

\* ---------------------------------------------------------------- bounds
NumPlayers == 5
MaxTournaments == 2
MaxConcurrentRequests == 2
NumLeaguePlayers == 3
MaxLeagueMatches == 3
MaxLiveTournaments == 1

\* ------------------------------------------------------------- constants
None == 0
NoneText == "None"
Today == "today"
ADMIN_PASSWORD == "secret"
Passwords == {"secret", "wrong"}
Scores == {"2-1"}
Players == 1..NumPlayers
Workers == {1, 2}
LeaguePlayers == 1..NumLeaguePlayers
StartElo == 1200

VARIABLES
    tournament_state,   \* LeagueConfig.tournament_state: 0 none, 1 signup, 2 active, 3 concluded
    signups,            \* tournament_signups: player id -> number of rows
    tournaments,        \* tournaments table in id order; the id is the index
    tmatches,           \* tournament_matches table in id order; the id is the index
    req,                \* per worker: an admin_start_next_round request between its reads and its commit
    nreq,               \* number of such overlapping requests issued so far
    player_rows,        \* players table: player id -> elo, wins, losses
    matches,            \* matches table (league matches), a set of rows
    history             \* league matches: how many were logged so far, whether every
                        \* removal so far took the newest match, and the matches logged
                        \* since the last removal that did not, each with the players
                        \* table as it was before

vars == <<tournament_state, signups, tournaments, tmatches, req, nreq, player_rows, matches, history>>
league == <<player_rows, matches, history>>
data == <<tournament_state, signups, tournaments, tmatches>>

\* ------------------------------------------------------------- responses
\* What a handler returns: redirect('/') (and redirect(url_for('index')), the
\* same URL) or a (body, status) pair.
Redirect == [status |-> 302, body |-> "/"]
Error(status, body) == [status |-> status, body |-> body]
Unauthorized == Error(401, "Unauthorized: Incorrect admin password.")

check_admin_password(submitted_password) == submitted_password = ADMIN_PASSWORD

\* ------------------------------------------------------------- utilities
RECURSIVE bit_length(_)
bit_length(n) == IF n = 0 THEN 0 ELSE 1 + bit_length(n \div 2)

\* Faulty variant: bit_length taken of n instead of n - 1.
get_next_power_of_two_of_n(n) == IF n <= 0 THEN 0 ELSE 2 ^ bit_length(n)

get_next_power_of_two(n) == IF n <= 0 THEN 0 ELSE 2 ^ bit_length(n - 1)

\* A Round-1 or later slot as the TournamentMatch constructor fills it.
TournamentMatch(tid, r, m, p1, p2, w, sc, bo) ==
    [tournament_id |-> tid, round_num |-> r, match_num |-> m,
     player1_id |-> p1, player2_id |-> p2, winner_id |-> w,
     score |-> sc, match_date |-> Today, best_of_games |-> bo]

\* The rows of tournament_signups as a list of player ids, in every order
\* random.shuffle can leave them in.
RECURSIVE RowCount(_, _)
RowCount(rows, S) ==
    IF S = {} THEN 0
    ELSE LET p == CHOOSE q \in S : TRUE
         IN rows[p] + RowCount(rows, S \ {p})

shuffle(rows) ==
    LET N == RowCount(rows, Players)
    IN {s \in [1..N -> Players] :
            \A p \in Players : Cardinality({i \in 1..N : s[i] = p}) = rows[p]}

\* Faulty variant: the bye slots are created without their winner and score.
generate_bracket_open_byes(players) ==
    LET N == Len(players)
        byes == get_next_power_of_two(N) - N
    IN [i \in 1..byes |->
            TournamentMatch(None, 1, i, players[i], None, None, NoneText, 3)]
       \o
       [i \in 1..((N - byes) \div 2) |->
            TournamentMatch(None, 1, byes + i,
                            players[byes + 2 * i - 1], players[byes + 2 * i],
                            None, NoneText, 3)]

\* Faulty variant: the real matches are numbered from 1 again, after the byes.
generate_bracket_renumbered(players) ==
    LET N == Len(players)
        byes == get_next_power_of_two(N) - N
    IN [i \in 1..byes |->
            TournamentMatch(None, 1, i, players[i], None, players[i], "BYE", 3)]
       \o
       [i \in 1..((N - byes) \div 2) |->
            TournamentMatch(None, 1, i,
                            players[byes + 2 * i - 1], players[byes + 2 * i],
                            None, NoneText, 3)]

\* Faulty variant: the players with a bye get no slot in round 1.
generate_bracket_without_bye_slots(players) ==
    LET N == Len(players)
        byes == get_next_power_of_two(N) - N
    IN [i \in 1..((N - byes) \div 2) |->
            TournamentMatch(None, 1, i,
                            players[byes + 2 * i - 1], players[byes + 2 * i],
                            None, NoneText, 3)]

\* generate_bracket after the shuffle: players is the shuffled list.  The
\* caller sets tournament_id afterwards.
generate_bracket(players) ==
    LET N == Len(players)
        bracket_size == get_next_power_of_two(N)
        byes == bracket_size - N
    IN IF byes > 0
       THEN LET num_r1_matches == (N - byes) \div 2
            IN [i \in 1..byes |->
                    TournamentMatch(None, 1, i, players[i], None, players[i], "BYE", 3)]
               \o
               [i \in 1..num_r1_matches |->
                    TournamentMatch(None, 1, byes + i,
                                    players[byes + 2 * i - 1], players[byes + 2 * i],
                                    None, NoneText, 3)]
       ELSE [i \in 1..(N \div 2) |->
                    TournamentMatch(None, 1, i, players[2 * i - 1], players[2 * i],
                                    None, NoneText, 3)]

\* Tournament.query.order_by(Tournament.id.desc()).first()
current_tournament == IF tournaments = <<>> THEN None ELSE Len(tournaments)

\* ------------------------------------------------- admin_start_next_round
RoundRows(tid, r) ==
    {i \in DOMAIN tmatches : tmatches[i].tournament_id = tid /\ tmatches[i].round_num = r}

\* max(round_num) over the tournament's matches, None when it has none
current_round(tid) ==
    LET rs == {tmatches[i].round_num : i \in {j \in DOMAIN tmatches : tmatches[j].tournament_id = tid}}
    IN IF rs = {} THEN None ELSE CHOOSE r \in rs : \A q \in rs : q <= r

\* Faulty variant: the completeness check of step 2 is skipped.
incomplete_matches_skipped(tid, r) == {}

\* Faulty variant: the bye exclusion is inverted (player2_id == None).
incomplete_matches_byes_only(tid, r) ==
    {i \in RoundRows(tid, r) : tmatches[i].winner_id = None /\ tmatches[i].player2_id = None}

incomplete_matches(tid, r) ==
    {i \in RoundRows(tid, r) : tmatches[i].winner_id = None /\ tmatches[i].player2_id # None}

\* Rows of S in ascending match_num order (rows with equal match_num in id order).
RECURSIVE OrderByMatchNum(_)
OrderByMatchNum(S) ==
    IF S = {} THEN <<>>
    ELSE LET first == CHOOSE i \in S : \A j \in S :
                          \/ tmatches[i].match_num < tmatches[j].match_num
                          \/ tmatches[i].match_num = tmatches[j].match_num /\ i <= j
         IN <<first>> \o OrderByMatchNum(S \ {first})

current_round_winners(tid, r) ==
    OrderByMatchNum({i \in RoundRows(tid, r) : tmatches[i].winner_id # None})

\* Faulty variant: player1 of every decided match advances.
winners_ids_of_player1(tid, r) ==
    LET ws == current_round_winners(tid, r)
    IN [k \in 1..Len(ws) |-> tmatches[ws[k]].player1_id]

winners_ids_of(tid, r) ==
    LET ws == current_round_winners(tid, r)
    IN [k \in 1..Len(ws) |-> tmatches[ws[k]].winner_id]

\* Faulty variant: every round after the first counts as the final.
is_final_round_any_later_round(num_matches, last_winner_gets_bye, next_round) ==
    next_round > 1

\* Faulty variant: only the paired matches are counted, not the bye slot.
is_final_round_paired_only(num_matches, last_winner_gets_bye, next_round) ==
    num_matches = 1 /\ next_round > 1

is_final_round(num_matches, last_winner_gets_bye, next_round) ==
    (num_matches + (IF last_winner_gets_bye THEN 1 ELSE 0) = 1) /\ next_round > 1

\* Faulty variant: winner i is paired with winner i + num_matches instead of its
\* neighbour.
next_round_matches_split_halves(tid, next_round, winners_ids) ==
    LET num_matches == Len(winners_ids) \div 2
    IN [i \in 1..num_matches |->
            TournamentMatch(tid, next_round, i,
                            winners_ids[i], winners_ids[i + num_matches],
                            None, NoneText,
                            IF num_matches = 1 /\ next_round > 1 THEN 5 ELSE 3)]

\* Step 5 of admin_start_next_round: the rows it adds for next_round.
next_round_matches(tid, next_round, winners_ids) ==
    LET num_matches == Len(winners_ids) \div 2
        last_winner_gets_bye == (Len(winners_ids) % 2 # 0)
        best_of == IF is_final_round(num_matches, last_winner_gets_bye, next_round) THEN 5 ELSE 3
        paired == [i \in 1..num_matches |->
                        TournamentMatch(tid, next_round, i,
                                        winners_ids[2 * i - 1], winners_ids[2 * i],
                                        None, NoneText, best_of)]
        bye_player_id == winners_ids[Len(winners_ids)]
    IN IF last_winner_gets_bye
       THEN Append(paired, TournamentMatch(tid, next_round, num_matches + 1,
                                           bye_player_id, None, bye_player_id, "BYE", 3))
       ELSE paired

\* Faulty variant: the tournament is declared over with two winners left.
champion_decided_with_two(winners_ids) == Len(winners_ids) <= 2

\* Step 4: at most one winner is left, the tournament is over.
champion_decided(winners_ids) == Len(winners_ids) <= 1

\* Steps 1-4: what the handler reads and which branch it takes.
ReadRound ==
    LET tid == current_tournament
        r == IF tid = None THEN None ELSE current_round(tid)
        ready == r # None /\ incomplete_matches(tid, r) = {}
        winners_ids == IF ready THEN winners_ids_of(tid, r) ELSE <<>>
    IN [tid |-> tid, current_round |-> r, winners_ids |-> winners_ids,
        branch |-> IF tournament_state # 2 THEN "not_active"
                   ELSE IF tid = None THEN "no_tournament"
                   ELSE IF r = None THEN "no_matches"
                   ELSE IF ~ready THEN "not_ready"
                   ELSE IF champion_decided(winners_ids) THEN "champion"
                   ELSE "next_round"]

NextRoundResponse(rd) ==
    CASE rd.branch = "not_active" -> Error(400, "Tournament is not currently active.")
      [] rd.branch = "no_tournament" -> Error(404, "No active tournament found.")
      [] rd.branch = "no_matches" -> Error(404, "No matches generated for this tournament.")
      [] OTHER -> Redirect

\* Faulty variant: the champion is recorded but the phase is left as it is.
CommitRound_phase_kept(rd) ==
    /\ tmatches' = IF rd.branch = "next_round"
                   THEN tmatches \o next_round_matches(rd.tid, rd.current_round + 1, rd.winners_ids)
                   ELSE tmatches
    /\ tournaments' = IF rd.branch = "champion"
                      THEN [tournaments EXCEPT ![rd.tid] =
                                [winner_id |-> IF rd.winners_ids # <<>> THEN rd.winners_ids[1] ELSE None,
                                 end_date |-> Today]]
                      ELSE tournaments
    /\ UNCHANGED <<tournament_state, signups>>

\* What the handler's commit writes, given what it read.
CommitRound(rd) ==
    /\ tmatches' = IF rd.branch = "next_round"
                   THEN tmatches \o next_round_matches(rd.tid, rd.current_round + 1, rd.winners_ids)
                   ELSE tmatches
    /\ tournaments' = IF rd.branch = "champion"
                      THEN [tournaments EXCEPT ![rd.tid] =
                                [winner_id |-> IF rd.winners_ids # <<>> THEN rd.winners_ids[1] ELSE None,
                                 end_date |-> Today]]
                      ELSE tournaments
    /\ tournament_state' = IF rd.branch = "champion" THEN 3 ELSE tournament_state
    /\ UNCHANGED signups

admin_start_next_round_response(admin_password) ==
    IF ~check_admin_password(admin_password) THEN Unauthorized ELSE NextRoundResponse(ReadRound)

NoRead == [tid |-> None, current_round |-> None, winners_ids |-> <<>>, branch |-> "none"]
Idle == [pc |-> "idle", rd |-> NoRead]

\* --------------------------------------------------- the other handlers'
\* branches and return values
\* Faulty variant: the phase is not looked at.
admin_start_signup_branch_any_phase(admin_password) ==
    IF ~check_admin_password(admin_password) THEN "unauthorized" ELSE "start"

admin_start_signup_branch(admin_password) ==
    IF ~check_admin_password(admin_password) THEN "unauthorized"
    ELSE IF tournament_state = 0 \/ tournament_state = 3 THEN "start"
    ELSE "skip"

admin_start_signup_response(admin_password) ==
    IF admin_start_signup_branch(admin_password) = "unauthorized" THEN Unauthorized ELSE Redirect

\* Faulty variant: the existing signup is not looked up.
signup_for_tournament_branch_no_lookup(player_id) ==
    IF tournament_state # 1 THEN "closed" ELSE "new"

signup_for_tournament_branch(player_id) ==
    IF tournament_state # 1 THEN "closed"
    ELSE IF signups[player_id] > 0 THEN "existing"
    ELSE "new"

signup_for_tournament_response(player_id) ==
    IF signup_for_tournament_branch(player_id) = "closed"
    THEN Error(400, "Signup is not currently active.")
    ELSE Redirect

\* Faulty variant: the number of signed-up players is not checked.
admin_start_tournament_branch_any_count(admin_password) ==
    IF ~check_admin_password(admin_password) THEN "unauthorized"
    ELSE IF tournament_state # 1 THEN "closed"
    ELSE IF current_tournament = None THEN "no_tournament"
    ELSE "start"

admin_start_tournament_branch(admin_password) ==
    IF ~check_admin_password(admin_password) THEN "unauthorized"
    ELSE IF tournament_state # 1 THEN "closed"
    ELSE IF RowCount(signups, Players) < 2 THEN "too_few"
    ELSE IF current_tournament = None THEN "no_tournament"
    ELSE "start"

admin_start_tournament_response(admin_password) ==
    LET b == admin_start_tournament_branch(admin_password)
    IN CASE b = "unauthorized" -> Unauthorized
         [] b = "closed" -> Error(400, "Signup is not currently active.")
         [] b = "too_few" -> Error(400, "Need at least 2 players to start a tournament.")
         [] b = "no_tournament" -> Error(404, "No active tournament structure found.")
         [] OTHER -> Redirect

admin_end_tournament_response(admin_password) ==
    IF ~check_admin_password(admin_password) THEN Unauthorized ELSE Redirect

\* Faulty variant: a match that already has a winner is not turned away.
log_tournament_match_branch_relogs(tmatch_id, winner_id) ==
    IF tmatch_id \notin DOMAIN tmatches THEN "not_found_or_completed"
    ELSE LET tmatch == tmatches[tmatch_id]
         IN IF winner_id = tmatch.player1_id
            THEN (IF tmatch.player2_id = None THEN "bye" ELSE "log")
            ELSE IF winner_id = tmatch.player2_id THEN "log"
            ELSE "invalid_winner"

log_tournament_match_branch(tmatch_id, winner_id) ==
    IF tmatch_id \notin DOMAIN tmatches THEN "not_found_or_completed"
    ELSE LET tmatch == tmatches[tmatch_id]
         IN IF tmatch.winner_id # None THEN "not_found_or_completed"
            ELSE IF winner_id = tmatch.player1_id
                 THEN (IF tmatch.player2_id = None THEN "bye" ELSE "log")
            ELSE IF winner_id = tmatch.player2_id THEN "log"
            ELSE "invalid_winner"

log_tournament_match_response(tmatch_id, winner_id) ==
    LET b == log_tournament_match_branch(tmatch_id, winner_id)
    IN CASE b = "not_found_or_completed" -> Error(404, "Match not found or already completed.")
         [] b = "bye" -> Error(400, "Cannot log a winner for a BYE match.")
         [] b = "invalid_winner" -> Error(400, "Invalid winner submitted.")
         [] OTHER -> Redirect

\* ------------------------------------------------------------------ Init
Init ==
    /\ tournament_state = 0
    /\ signups = [p \in Players |-> 0]
    /\ tournaments = <<>>
    /\ tmatches = <<>>
    /\ req = [w \in Workers |-> Idle]
    /\ nreq = 0
    /\ player_rows = [p \in LeaguePlayers |-> [elo |-> StartElo, wins |-> 0, losses |-> 0]]
    /\ matches = {}
    /\ history = [logged |-> 0, newest_first |-> TRUE, stack |-> <<>>]

\* --------------------------------------------------------------- handlers
\* Faulty variant: the old tournament matches are not deleted.
admin_start_signup_keeps_matches ==
    \E admin_password \in Passwords :
        /\ UNCHANGED <<req, nreq, league>>
        /\ IF admin_start_signup_branch(admin_password) = "start"
           THEN /\ Len(tournaments) < MaxTournaments
                /\ signups' = [p \in Players |-> 0]
                /\ tournaments' = Append(tournaments, [winner_id |-> None, end_date |-> NoneText])
                /\ tournament_state' = 1
                /\ UNCHANGED tmatches
           ELSE UNCHANGED data

admin_start_signup ==
    \E admin_password \in Passwords :
        /\ UNCHANGED <<req, nreq, league>>
        /\ IF admin_start_signup_branch(admin_password) = "start"
           THEN /\ Len(tournaments) < MaxTournaments
                /\ signups' = [p \in Players |-> 0]
                /\ tmatches' = <<>>
                /\ tournaments' = Append(tournaments, [winner_id |-> None, end_date |-> NoneText])
                /\ tournament_state' = 1
           ELSE UNCHANGED data

signup_player(player_id) ==
    /\ UNCHANGED <<req, nreq, league>>
    /\ IF signup_for_tournament_branch(player_id) = "new"
       THEN /\ signups' = [signups EXCEPT ![player_id] = @ + 1]
            /\ UNCHANGED <<tournament_state, tournaments, tmatches>>
       ELSE UNCHANGED data

signup_for_tournament == \E player_id \in Players : signup_player(player_id)

admin_start_tournament ==
    \E admin_password \in Passwords :
        /\ UNCHANGED <<req, nreq, league>>
        /\ IF admin_start_tournament_branch(admin_password) = "start"
           THEN \E signed_up_players \in shuffle(signups) :
                    LET initial_matches == generate_bracket(signed_up_players)
                    IN /\ tmatches' = tmatches \o
                            [i \in 1..Len(initial_matches) |->
                                [initial_matches[i] EXCEPT !.tournament_id = current_tournament]]
                       /\ tournament_state' = 2
                       /\ UNCHANGED <<signups, tournaments>>
           ELSE UNCHANGED data

\* Faulty variant: ending also stamps the current tournament's end date.
admin_end_tournament_sets_end_date ==
    \E admin_password \in Passwords :
        /\ UNCHANGED <<req, nreq, league>>
        /\ IF check_admin_password(admin_password)
           THEN /\ tournament_state' = 0
                /\ tournaments' = [i \in DOMAIN tournaments |->
                                      IF i = Len(tournaments)
                                      THEN [tournaments[i] EXCEPT !.end_date = Today]
                                      ELSE tournaments[i]]
                /\ UNCHANGED <<signups, tmatches>>
           ELSE UNCHANGED data

admin_end_tournament ==
    \E admin_password \in Passwords :
        /\ UNCHANGED <<req, nreq, league>>
        /\ IF check_admin_password(admin_password)
           THEN /\ tournament_state' = 0
                /\ UNCHANGED <<signups, tournaments, tmatches>>
           ELSE UNCHANGED data

admin_start_next_round ==
    \E admin_password \in Passwords :
        /\ UNCHANGED <<req, nreq, league>>
        /\ IF check_admin_password(admin_password)
           THEN \E rd \in {ReadRound} : CommitRound(rd)
           ELSE UNCHANGED data

log_tournament_match ==
    \E tmatch_id \in 1..(Len(tmatches) + 1), winner_id \in Players, score \in Scores :
        /\ UNCHANGED <<req, nreq, league>>
        /\ IF log_tournament_match_branch(tmatch_id, winner_id) = "log"
           THEN /\ tmatches' = [tmatches EXCEPT ![tmatch_id] =
                                    [@ EXCEPT !.winner_id = winner_id, !.score = score,
                                              !.match_date = Today]]
                /\ UNCHANGED <<tournament_state, signups, tournaments>>
           ELSE UNCHANGED data

Next ==
    \/ admin_start_signup
    \/ signup_for_tournament
    \/ admin_start_tournament
    \/ admin_end_tournament
    \/ admin_start_next_round
    \/ log_tournament_match

Spec == Init /\ [][Next]_vars

\* ------------------------------------------- a tournament that is played
\* Once a tournament is ACTIVE nobody ends it by hand; results keep being
\* submitted for its open matches and the admin keeps asking for the next
\* round.  Tournaments follow one another without sharing a row (the
\* matches and signups of the last one are deleted when signup opens), so
\* the first MaxLiveTournaments are followed.
NextLive ==
    \/ (Len(tournaments) < MaxLiveTournaments /\ admin_start_signup)
    \/ signup_for_tournament
    \/ admin_start_tournament
    \/ (tournament_state # 2 /\ admin_end_tournament)
    \/ admin_start_next_round
    \/ log_tournament_match

SpecLive ==
    /\ Init
    /\ [][NextLive]_vars
    /\ WF_vars(tournament_state = 2 /\ log_tournament_match)
    /\ WF_vars(tournament_state = 2 /\ admin_start_next_round)

\* ----------------------------------- step 5 on every number of winners
\* One request at a time leaves rounds of 1, 2, 4, ... slots; a round with
\* another number of slots is left by overlapping requests that each add
\* their rows to it.  Here admin_start_next_round is applied to an ACTIVE
\* tournament whose highest round is decided with any 2..NumPlayers
\* winners, and play goes on from there.
WinnerLists ==
    {ws \in UNION {[1..k -> Players] : k \in 2..NumPlayers} :
        \A i, j \in DOMAIN ws : ws[i] = ws[j] => i = j}

DecidedRound(ws) ==
    [i \in 1..Len(ws) |-> TournamentMatch(1, 1, i, ws[i], None, ws[i], "BYE", 3)]

InitAdvance ==
    /\ tournament_state = 2
    /\ tournaments = <<[winner_id |-> None, end_date |-> NoneText]>>
    /\ \E ws \in WinnerLists :
            /\ tmatches = DecidedRound(ws)
            /\ signups = [p \in Players |-> IF \E i \in DOMAIN ws : ws[i] = p THEN 1 ELSE 0]
    /\ req = [w \in Workers |-> Idle]
    /\ nreq = 0
    /\ player_rows = [p \in LeaguePlayers |-> [elo |-> StartElo, wins |-> 0, losses |-> 0]]
    /\ matches = {}
    /\ history = [logged |-> 0, newest_first |-> TRUE, stack |-> <<>>]

NextAdvance ==
    \/ admin_start_next_round
    \/ log_tournament_match

SpecAdvance == InitAdvance /\ [][NextAdvance]_vars

\* ------------------------------------- overlapping admin_start_next_round
\* Two requests served by different workers: each runs its queries (steps
\* 1-4) in its own session, and later adds its rows and commits.
begin_next_round(w) ==
    /\ req[w].pc = "idle"
    /\ nreq < MaxConcurrentRequests
    /\ ReadRound.branch \in {"champion", "next_round"}
    /\ req' = [req EXCEPT ![w] = [pc |-> "commit", rd |-> ReadRound]]
    /\ nreq' = nreq + 1
    /\ UNCHANGED <<data, league>>

commit_next_round(w) ==
    /\ req[w].pc = "commit"
    /\ CommitRound(req[w].rd)
    /\ req' = [req EXCEPT ![w] = Idle]
    /\ UNCHANGED <<nreq, league>>

NoRequestInFlight == \A w \in Workers : req[w].pc = "idle"

NextConc ==
    \/ NoRequestInFlight /\ admin_start_signup
    \/ NoRequestInFlight /\ signup_for_tournament
    \/ NoRequestInFlight /\ admin_start_tournament
    \/ NoRequestInFlight /\ admin_end_tournament
    \/ NoRequestInFlight /\ log_tournament_match
    \/ \E w \in Workers : begin_next_round(w)
    \/ \E w \in Workers : commit_next_round(w)

SpecConc == Init /\ [][NextConc]_vars

\* ---------------------------------------------------------- league matches
\* K * (1 - expected_winner), rounded, depends on loser_elo - winner_elo
\* only and never decreases with it: it is the number of the differences
\* below, at which the rounded value steps up by one, that are not above
\* the actual difference (0 up to -720, 16 for equal ratings, 32 from 720).
\* -K * expected_loser is the same amount with the opposite sign.
EloThresholds ==
    {-719, -523, -428, -364, -314, -273, -237, -205, -176, -149, -124, -100,
     -77, -54, -32, -10, 11, 33, 55, 78, 101, 125, 150, 177, 206, 238, 274,
     315, 365, 429, 524, 720}

EloGain(d) == Cardinality({t \in EloThresholds : t <= d})

calculate_elo(winner_elo, loser_elo) ==
    <<winner_elo + EloGain(loser_elo - winner_elo),
      loser_elo - EloGain(loser_elo - winner_elo)>>

\* db.session.get(Player, id) finds the player
PlayerFound(id) == id \in DOMAIN player_rows

\* the primary key the database gives a new matches row
next_match_id ==
    IF matches = {} THEN 1
    ELSE 1 + (CHOOSE i \in {m.id : m \in matches} : \A m \in matches : m.id <= i)

log_match_branch(winner_id, loser_id) ==
    IF winner_id = loser_id THEN "same"
    ELSE IF ~PlayerFound(winner_id) \/ ~PlayerFound(loser_id) THEN "not_found"
    ELSE "log"

log_match_response(winner_id, loser_id) ==
    IF log_match_branch(winner_id, loser_id) = "not_found"
    THEN Error(404, "One or both players not found.")
    ELSE Redirect

log_match_of(winner_id, loser_id, score) ==
    /\ UNCHANGED <<data, req, nreq>>
    /\ IF log_match_branch(winner_id, loser_id) = "log"
       THEN LET winner_pre_elo == player_rows[winner_id].elo
                loser_pre_elo == player_rows[loser_id].elo
                post == calculate_elo(winner_pre_elo, loser_pre_elo)
                new_match == [id |-> next_match_id,
                              winner_id |-> winner_id, loser_id |-> loser_id, score |-> score,
                              winner_pre_elo |-> winner_pre_elo, loser_pre_elo |-> loser_pre_elo,
                              winner_post_elo |-> post[1], loser_post_elo |-> post[2]]
            IN /\ history.logged < MaxLeagueMatches
               /\ player_rows' = [player_rows EXCEPT
                                ![winner_id] = [@ EXCEPT !.elo = post[1], !.wins = @ + 1],
                                ![loser_id] = [@ EXCEPT !.elo = post[2], !.losses = @ + 1]]
               /\ matches' = matches \cup {new_match}
               /\ history' = [history EXCEPT
                                !.logged = @ + 1,
                                !.stack = Append(@, [id |-> new_match.id,
                                                     before |-> player_rows])]
       ELSE UNCHANGED league

log_match ==
    \E winner_id \in 1..(NumLeaguePlayers + 1), loser_id \in 1..(NumLeaguePlayers + 1),
       score \in Scores :
        log_match_of(winner_id, loser_id, score)

\* Faulty variant: the winner's change is recomputed with the Elo formula
\* from the ratings after the match, not taken from the stored snapshots.
winner_elo_change_recomputed(match) ==
    calculate_elo(match.winner_post_elo, match.loser_post_elo)[1] - match.winner_post_elo

winner_elo_change(match) == match.winner_post_elo - match.winner_pre_elo
loser_elo_change(match) == match.loser_post_elo - match.loser_pre_elo

remove_match_of(match_id, admin_password) ==
    /\ UNCHANGED <<data, req, nreq>>
    /\ IF check_admin_password(admin_password) /\ match_id \in {m.id : m \in matches}
       THEN LET match == CHOOSE m \in matches : m.id = match_id
                top == Len(history.stack)
            IN /\ player_rows' =
                    IF PlayerFound(match.winner_id) /\ PlayerFound(match.loser_id)
                    THEN [player_rows EXCEPT
                            ![match.winner_id] = [@ EXCEPT !.elo = @ - winner_elo_change(match),
                                                           !.wins = @ - 1],
                            ![match.loser_id] = [@ EXCEPT !.elo = @ - loser_elo_change(match),
                                                          !.losses = @ - 1]]
                    ELSE player_rows
               /\ matches' = matches \ {match}
               /\ history' =
                    IF top > 0 /\ history.stack[top].id = match_id
                    THEN [history EXCEPT !.stack = SubSeq(@, 1, top - 1)]
                    ELSE [history EXCEPT !.stack = <<>>, !.newest_first = FALSE]
       ELSE UNCHANGED league

remove_match_response(match_id, admin_password) ==
    IF ~check_admin_password(admin_password) THEN Unauthorized ELSE Redirect

remove_match ==
    \E match_id \in 1..(MaxLeagueMatches + 1), admin_password \in Passwords :
        remove_match_of(match_id, admin_password)

NextLeague ==
    \/ log_match
    \/ remove_match

SpecLeague == Init /\ [][NextLeague]_vars

\* ======================================================================
\* Properties
\* ======================================================================
Cur == Len(tournaments)

RowsIn(ms, tid, r) ==
    {i \in DOMAIN ms : ms[i].tournament_id = tid /\ ms[i].round_num = r}

TopRound(ms, tid) ==
    LET rs == {ms[i].round_num : i \in {j \in DOMAIN ms : ms[j].tournament_id = tid}}
    IN IF rs = {} THEN 0 ELSE CHOOSE r \in rs : \A q \in rs : q <= r

Undecided(ms, tid, r) ==
    {i \in RowsIn(ms, tid, r) : ms[i].player2_id # None /\ ms[i].winner_id = None}

RoundDecided(ms, tid, r) ==
    r >= 1 /\ \A i \in RowsIn(ms, tid, r) : ms[i].winner_id # None

\* the winner of the slot numbered k of round r
WinnerAt(ms, tid, r, k) ==
    ms[CHOOSE i \in RowsIn(ms, tid, r) : ms[i].match_num = k].winner_id

SignedUp == {p \in Players : signups[p] > 0}

\* C1: the phase changes only along NONE->SIGNUP and CONCLUDED->SIGNUP (by
\* admin_start_signup), SIGNUP->ACTIVE (by admin_start_tournament),
\* ACTIVE->CONCLUDED (by admin_start_next_round) and any phase->NONE (by
\* admin_end_tournament); signup_for_tournament and log_tournament_match
\* never change it.
C1_PhaseEdges ==
    [][tournament_state' # tournament_state =>
        \/ tournament_state \in {0, 3} /\ tournament_state' = 1 /\ admin_start_signup
        \/ tournament_state = 1 /\ tournament_state' = 2 /\ admin_start_tournament
        \/ tournament_state = 2 /\ tournament_state' = 3 /\ admin_start_next_round
        \/ tournament_state' = 0 /\ admin_end_tournament]_vars

\* A second signup phase, opened after the first tournament was concluded
\* with a champion: every edge of the cycle has been taken.
C1_Witness ==
    /\ tournament_state = 1
    /\ Len(tournaments) = 2
    /\ tournaments[1].winner_id # None

\* C2: admin_start_next_round in phase ACTIVE, while the highest round has
\* an undecided non-bye match, changes nothing: no match is added or
\* modified, the phase stays ACTIVE and no tournament gets a champion or an
\* end date.
C2_NotReadyNoOp ==
    [][(/\ tournament_state = 2
        /\ data' # data
        /\ Undecided(tmatches, Cur, TopRound(tmatches, Cur)) # {}
        /\ admin_start_next_round)
       => /\ tmatches' = tmatches
          /\ tournament_state' = 2
          /\ tournaments' = tournaments
          /\ signups' = signups]_vars

\* The not-ready call is answered with the redirect, in a round that has a
\* decided and an undecided match.
C2_Witness ==
    /\ tournament_state = 2
    /\ Undecided(tmatches, Cur, TopRound(tmatches, Cur)) # {}
    /\ \E i \in RowsIn(tmatches, Cur, TopRound(tmatches, Cur)) :
            tmatches[i].player2_id # None /\ tmatches[i].winner_id # None
    /\ admin_start_next_round_response(ADMIN_PASSWORD) = Redirect
    /\ tournaments[Cur] = [winner_id |-> None, end_date |-> NoneText]

\* C3: the phase becomes CONCLUDED only by an admin_start_next_round call
\* made in phase ACTIVE when every match of the highest round is decided and
\* that round has exactly one winner; the call makes that winner the current
\* tournament's champion, sets its end date and adds no match.  Whenever the
\* phase is CONCLUDED the champion is set and is a signed-up player.
C3_Conclusion ==
    [][/\ (tournament_state' = 3 /\ tournament_state # 3) =>
            LET r == TopRound(tmatches, Cur)
            IN /\ tournament_state = 2
               /\ admin_start_next_round
               /\ RoundDecided(tmatches, Cur, r)
               /\ Cardinality(RowsIn(tmatches, Cur, r)) = 1
               /\ \A i \in RowsIn(tmatches, Cur, r) :
                      tournaments'[Cur].winner_id = tmatches[i].winner_id
               /\ tournaments'[Cur].end_date = Today
               /\ Len(tournaments') = Len(tournaments)
               /\ tmatches' = tmatches
       /\ tournament_state' = 3 =>
            /\ tournaments'[Len(tournaments')].winner_id # None
            /\ signups'[tournaments'[Len(tournaments')].winner_id] > 0]_vars

\* A three-round tournament concluded with its champion.
C3_Witness ==
    /\ tournament_state = 3
    /\ TopRound(tmatches, Cur) = 3
    /\ tournaments[Cur].winner_id \in SignedUp
    /\ tournaments[Cur].end_date = Today

\* C4: with N >= 2 signed-up players and B the smallest power of two >= N,
\* round 1 has B - N bye slots and (N - byes) / 2 real matches, so that
\* byes + 2 * real = N, and every signed-up player is in exactly one slot of
\* round 1.
IsPowerOfTwo(b) == \E k \in 0..b : b = 2 ^ k

SmallestPowerOfTwoAtLeast(n) ==
    CHOOSE b \in 1..(2 * n) : /\ IsPowerOfTwo(b) /\ b >= n
                              /\ \A c \in 1..(2 * n) : (IsPowerOfTwo(c) /\ c >= n) => b <= c

Round1Byes == {i \in RowsIn(tmatches, Cur, 1) : tmatches[i].player2_id = None}
Round1Real == {i \in RowsIn(tmatches, Cur, 1) : tmatches[i].player2_id # None}

SlotsOfPlayer(p) ==
    {<<i, "player1">> : i \in {j \in RowsIn(tmatches, Cur, 1) : tmatches[j].player1_id = p}}
    \cup {<<i, "player2">> : i \in {j \in RowsIn(tmatches, Cur, 1) : tmatches[j].player2_id = p}}

C4_Round1Bracket ==
    tmatches # <<>> =>
        LET N == Cardinality(SignedUp)
            B == SmallestPowerOfTwoAtLeast(N)
            byes == Cardinality(Round1Byes)
            real == Cardinality(Round1Real)
        IN /\ N >= 2
           /\ byes = B - N
           /\ 2 * real = N - byes
           /\ byes + 2 * real = N
           /\ \A p \in SignedUp : Cardinality(SlotsOfPlayer(p)) = 1
           /\ \A p \in Players \ SignedUp : SlotsOfPlayer(p) = {}

\* Five players: three bye slots and one real match, four slots in all.
C4_Witness ==
    /\ tournament_state = 2
    /\ Cardinality(SignedUp) = 5
    /\ Cardinality(Round1Byes) = 3
    /\ Cardinality(Round1Real) = 1
    /\ Cardinality(RowsIn(tmatches, Cur, 1)) = 4

\* C5: admin_start_next_round on a fully decided round r with w >= 2
\* winners adds matches of round r + 1 only, numbered 1..floor(w/2), match i
\* pairing the (2i-1)-th and the (2i)-th winner in ascending match-number
\* order of round r, with no winner; the phase stays ACTIVE and the highest
\* round number grows by exactly 1.
C5_Pairing ==
    [][LET r == TopRound(tmatches, Cur)
           w == Cardinality(RowsIn(tmatches, Cur, r))
           added == (Len(tmatches) + 1)..Len(tmatches')
       IN (/\ tournament_state = 2
           /\ data' # data
           /\ RoundDecided(tmatches, Cur, r)
           /\ w >= 2
           /\ admin_start_next_round)
          => /\ tournament_state' = 2
             /\ TopRound(tmatches', Cur) = r + 1
             /\ SubSeq(tmatches', 1, Len(tmatches)) = tmatches
             /\ \A j \in added : /\ tmatches'[j].round_num = r + 1
                                 /\ tmatches'[j].tournament_id = Cur
             /\ \A i \in 1..(w \div 2) :
                    \E j \in added :
                        /\ tmatches'[j].match_num = i
                        /\ tmatches'[j].player1_id = WinnerAt(tmatches, Cur, r, 2 * i - 1)
                        /\ tmatches'[j].player2_id = WinnerAt(tmatches, Cur, r, 2 * i)
                        /\ tmatches'[j].winner_id = None
                        /\ \A k \in added : tmatches'[k].match_num = i => k = j
             /\ \A j \in added :
                    tmatches'[j].player2_id # None => tmatches'[j].match_num \in 1..(w \div 2)]_vars

\* Round 2 of an eight-slot bracket: two matches made from four winners
\* (byes included), none decided yet.
C5_Witness ==
    /\ tournament_state = 2
    /\ TopRound(tmatches, Cur) = 2
    /\ Cardinality(RowsIn(tmatches, Cur, 1)) = 4
    /\ Round1Byes # {}
    /\ Cardinality(RowsIn(tmatches, Cur, 2)) = 2
    /\ \A j \in RowsIn(tmatches, Cur, 2) :
            /\ tmatches[j].winner_id = None
            /\ tmatches[j].player1_id = WinnerAt(tmatches, Cur, 1, 2 * tmatches[j].match_num - 1)
            /\ tmatches[j].player2_id = WinnerAt(tmatches, Cur, 1, 2 * tmatches[j].match_num)

\* C6: a match has best_of_games = 5 exactly when it is a paired match of a
\* round > 1 that holds one slot in total; every other match, every round-1
\* match and every bye slot has best_of_games = 3.  A decided round with
\* exactly 2 winners yields exactly one match, pairing the two, best of 5.
ExpectedBestOf(ms, i) ==
    IF /\ ms[i].round_num > 1
       /\ ms[i].player2_id # None
       /\ Cardinality(RowsIn(ms, ms[i].tournament_id, ms[i].round_num)) = 1
    THEN 5 ELSE 3

C6_BestOf ==
    [][/\ tmatches' # tmatches =>
            \A i \in DOMAIN tmatches' : tmatches'[i].best_of_games = ExpectedBestOf(tmatches', i)
       /\ LET r == TopRound(tmatches, Cur)
          IN (/\ tournament_state = 2
              /\ data' # data
              /\ RoundDecided(tmatches, Cur, r)
              /\ Cardinality(RowsIn(tmatches, Cur, r)) = 2
              /\ admin_start_next_round)
             => /\ Len(tmatches') = Len(tmatches) + 1
                /\ tmatches'[Len(tmatches')] =
                       [tournament_id |-> Cur, round_num |-> r + 1, match_num |-> 1,
                        player1_id |-> WinnerAt(tmatches, Cur, r, 1),
                        player2_id |-> WinnerAt(tmatches, Cur, r, 2),
                        winner_id |-> None, score |-> NoneText, match_date |-> Today,
                        best_of_games |-> 5]]_vars

\* A best-of-3 second round followed by the best-of-5 final.
C6_Witness ==
    /\ \E i \in RowsIn(tmatches, Cur, 2) :
            tmatches[i].player2_id # None /\ tmatches[i].best_of_games = 3
    /\ \E i \in RowsIn(tmatches, Cur, 3) :
            tmatches[i].player2_id # None /\ tmatches[i].best_of_games = 5
    /\ \E i \in RowsIn(tmatches, Cur, 1) : tmatches[i].player2_id = None

\* C7: overlapping admin_start_next_round requests never leave two matches
\* of one tournament with the same (round number, match number).
C7_NoDuplicateSlots ==
    \A i, j \in DOMAIN tmatches :
        (/\ tmatches[i].tournament_id = tmatches[j].tournament_id
         /\ tmatches[i].round_num = tmatches[j].round_num
         /\ tmatches[i].match_num = tmatches[j].match_num) => i = j

\* C8: outside phase ACTIVE a log_tournament_match call sets no winner,
\* score or date on any tournament match.
C8_LogOnlyWhenActive ==
    [][(tournament_state # 2 /\ log_tournament_match) => tmatches' = tmatches]_vars

\* C9: log_tournament_match answers an unknown match id, an already decided
\* match, a bye slot and a winner who is not in the match each with an error
\* of its own: calls that fail for different reasons get different answers.
LogFailure(tmatch_id, winner_id) ==
    IF tmatch_id \notin DOMAIN tmatches THEN "MatchNotFound"
    ELSE IF tmatches[tmatch_id].player2_id = None THEN "ByeMatchCannotBeLogged"
    ELSE IF tmatches[tmatch_id].winner_id # None THEN "MatchAlreadyDecided"
    ELSE IF winner_id \notin {tmatches[tmatch_id].player1_id, tmatches[tmatch_id].player2_id}
         THEN "InvalidWinner"
    ELSE "none"

LogCalls == (1..(Len(tmatches) + 1)) \X Players

C9_DistinctOutcomes ==
    \A c, d \in LogCalls :
        (/\ LogFailure(c[1], c[2]) # "none"
         /\ LogFailure(d[1], d[2]) # "none"
         /\ LogFailure(c[1], c[2]) # LogFailure(d[1], d[2]))
        => /\ log_tournament_match_response(c[1], c[2]).status >= 400
           /\ log_tournament_match_response(c[1], c[2]) # log_tournament_match_response(d[1], d[2])

\* C10: admin_start_signup in SIGNUP or ACTIVE, signup_for_tournament and
\* admin_start_tournament outside SIGNUP, and admin_start_next_round outside
\* ACTIVE are answered with an error and change nothing; a call answered
\* with the success redirect that changes nothing is a duplicate signup or a
\* not-ready admin_start_next_round.
IllegalCallsAnswered ==
    /\ tournament_state \in {1, 2} => admin_start_signup_response(ADMIN_PASSWORD).status >= 400
    /\ tournament_state # 1 =>
            /\ \A p \in Players : signup_for_tournament_response(p).status >= 400
            /\ admin_start_tournament_response(ADMIN_PASSWORD).status >= 400
    /\ tournament_state # 2 => admin_start_next_round_response(ADMIN_PASSWORD).status >= 400

IllegalCallsChangeNothing ==
    /\ (tournament_state \in {1, 2} /\ admin_start_signup) => UNCHANGED data
    /\ (tournament_state # 1 /\ (signup_for_tournament \/ admin_start_tournament)) => UNCHANGED data
    /\ (tournament_state # 2 /\ admin_start_next_round) => UNCHANGED data

C10_IllegalCallsFail == [][IllegalCallsChangeNothing]_vars /\ []IllegalCallsAnswered

\* C11: admin_start_tournament in phase SIGNUP with fewer than 2 signed-up
\* players is answered with the "need at least 2 players" error and changes
\* nothing; so in phase ACTIVE the current tournament always has a round-1
\* match.
TooFewAnswered ==
    /\ (tournament_state = 1 /\ Cardinality(SignedUp) < 2) =>
            admin_start_tournament_response(ADMIN_PASSWORD) =
                Error(400, "Need at least 2 players to start a tournament.")
    /\ tournament_state = 2 => RowsIn(tmatches, Cur, 1) # {}

C11_InsufficientPlayers ==
    /\ []TooFewAnswered
    /\ [][(/\ tournament_state = 1
           /\ Cardinality(SignedUp) < 2
           /\ admin_start_tournament) => UNCHANGED data]_vars

\* Signup is open with exactly one player signed up: the start is refused.
C11_Witness ==
    /\ tournament_state = 1
    /\ Cardinality(SignedUp) = 1
    /\ tmatches = <<>>
    /\ admin_start_tournament_response(ADMIN_PASSWORD).status = 400

\* C12: no player has more than one signup row; a signup in phase SIGNUP for
\* a player not yet signed up adds exactly that player, and a signup for a
\* player already signed up is answered with the redirect and changes
\* nothing.
SignupsUnique ==
    /\ \A p \in Players : signups[p] <= 1
    /\ \A p \in Players :
            (tournament_state = 1 /\ signups[p] > 0) => signup_for_tournament_response(p) = Redirect

C12_SignupUnique ==
    /\ []SignupsUnique
    /\ [][\A p \in Players :
            (data' # data /\ signup_player(p)) =>
                IF tournament_state = 1 /\ signups[p] = 0
                THEN /\ signups' = [signups EXCEPT ![p] = 1]
                     /\ UNCHANGED <<tournament_state, tournaments, tmatches>>
                ELSE UNCHANGED data]_vars

\* Three players signed up, each once; a further signup of any of them is a
\* successful no-op.
C12_Witness ==
    /\ tournament_state = 1
    /\ Cardinality(SignedUp) = 3
    /\ \A p \in SignedUp : signups[p] = 1 /\ signup_for_tournament_branch(p) = "existing"

\* C13: a successful admin_start_signup (from NONE or CONCLUDED) leaves no
\* signup and no tournament match, appends exactly one Tournament record
\* without champion and end date, keeps the earlier records unchanged and
\* sets the phase to SIGNUP.
C13_StartSignup ==
    [][(/\ data' # data
        /\ admin_start_signup)
       => /\ tournament_state \in {0, 3}
          /\ tournament_state' = 1
          /\ signups' = [p \in Players |-> 0]
          /\ tmatches' = <<>>
          /\ Len(tournaments') = Len(tournaments) + 1
          /\ SubSeq(tournaments', 1, Len(tournaments)) = tournaments
          /\ tournaments'[Len(tournaments')] = [winner_id |-> None, end_date |-> NoneText]]_vars

\* The second signup phase, just opened after a concluded tournament: the
\* first record keeps its champion and end date, nothing else is left over.
C13_Witness ==
    /\ tournament_state = 1
    /\ Len(tournaments) = 2
    /\ tournaments[1].winner_id # None /\ tournaments[1].end_date = Today
    /\ tournaments[2] = [winner_id |-> None, end_date |-> NoneText]
    /\ SignedUp = {}
    /\ tmatches = <<>>

\* C14: admin_end_tournament, in any phase, sets the phase to NONE and
\* changes neither a Tournament record nor a tournament match nor the signup
\* list.
EndPossible ==
    ENABLED (/\ admin_end_tournament
             /\ tournament_state' = 0
             /\ UNCHANGED <<signups, tournaments, tmatches>>)

C14_EndTournament ==
    /\ []EndPossible
    /\ [][admin_end_tournament =>
            /\ UNCHANGED <<signups, tournaments, tmatches>>
            /\ (tournament_state' = 0 \/ UNCHANGED data)]_vars

\* Phase NONE after an active tournament was abandoned: its matches are
\* still there, some undecided, and its record has no champion and no end
\* date.
C14_Witness ==
    /\ tournament_state = 0
    /\ Undecided(tmatches, Cur, TopRound(tmatches, Cur)) # {}
    /\ SignedUp # {}
    /\ tournaments[Cur] = [winner_id |-> None, end_date |-> NoneText]

\* C15: every tournament match without player2 (a bye) has winner = player1
\* and score "BYE".
C15_ByesDecided ==
    \A i \in DOMAIN tmatches :
        tmatches[i].player2_id = None =>
            /\ tmatches[i].winner_id = tmatches[i].player1_id
            /\ tmatches[i].player1_id # None
            /\ tmatches[i].score = "BYE"

\* A concluded three-round tournament whose round 1 had bye slots, after
\* results were logged and rounds advanced around them.
C15_Witness ==
    /\ tournament_state = 3
    /\ TopRound(tmatches, Cur) = 3
    /\ \E i \in RowsIn(tmatches, Cur, 1) :
            tmatches[i].player2_id = None /\ tmatches[i].score = "BYE"

\* C16: with one request at a time, the k slots of each round of the
\* current tournament are numbered exactly 1..k, and the rounds in use are
\* exactly 1..(highest round).
Rounds(ms, tid) == {ms[i].round_num : i \in {j \in DOMAIN ms : ms[j].tournament_id = tid}}

C16_Numbering ==
    /\ Rounds(tmatches, Cur) = 1..TopRound(tmatches, Cur)
    /\ \A r \in Rounds(tmatches, Cur) :
            LET rows == RowsIn(tmatches, Cur, r)
            IN /\ {tmatches[i].match_num : i \in rows} = 1..Cardinality(rows)
               /\ \A i, j \in rows : tmatches[i].match_num = tmatches[j].match_num => i = j

\* Rounds 1, 2, 3 of a five-player tournament: 4, 2 and 1 slots.
C16_Witness ==
    /\ Rounds(tmatches, Cur) = {1, 2, 3}
    /\ {tmatches[i].match_num : i \in RowsIn(tmatches, Cur, 1)} = {1, 2, 3, 4}
    /\ {tmatches[i].match_num : i \in RowsIn(tmatches, Cur, 2)} = {1, 2}
    /\ {tmatches[i].match_num : i \in RowsIn(tmatches, Cur, 3)} = {1}
    /\ Cardinality(Round1Byes) = 3

\* C18: with one request at a time, round r of a tournament started with N
\* signups holds exactly B / 2^r slots (B the smallest power of two >= N):
\* the rounds fed into admin_start_next_round have a power-of-two number of
\* winners, no round after the first has a bye slot, and the champion is
\* decided from round log2(B).
C18_PowerOfTwoRounds ==
    tmatches # <<>> =>
        LET B == SmallestPowerOfTwoAtLeast(Cardinality(SignedUp))
            top == TopRound(tmatches, Cur)
        IN /\ \A r \in 1..top :
                /\ Cardinality(RowsIn(tmatches, Cur, r)) * (2 ^ r) = B
                /\ IsPowerOfTwo(Cardinality(RowsIn(tmatches, Cur, r)))
           /\ \A i \in DOMAIN tmatches :
                tmatches[i].player2_id = None => tmatches[i].round_num = 1
           /\ 2 ^ top <= B
           /\ tournament_state = 3 =>
                /\ 2 ^ top = B
                /\ \A i \in RowsIn(tmatches, Cur, top) :
                        tournaments[Cur].winner_id = tmatches[i].winner_id

\* A three-player tournament (B = 4) concluded from round 2 = log2(4); its
\* round 1 had one bye slot and one real match.
C18_Witness ==
    /\ tournament_state = 3
    /\ Cardinality(SignedUp) = 3
    /\ TopRound(tmatches, Cur) = 2
    /\ Cardinality(RowsIn(tmatches, Cur, 1)) = 2
    /\ Cardinality(RowsIn(tmatches, Cur, 2)) = 1
    /\ tournaments[Cur].winner_id # None

\* C19: with one request at a time, every tournament match of a round below
\* the highest round of the current tournament has a winner.
C19_LowerRoundsDecided ==
    \A i \in DOMAIN tmatches :
        (tmatches[i].tournament_id = Cur /\ tmatches[i].round_num < TopRound(tmatches, Cur))
            => tmatches[i].winner_id # None

\* Round 2 is open with an undecided match, round 1 (real matches included)
\* is complete.
C19_Witness ==
    /\ tournament_state = 2
    /\ TopRound(tmatches, Cur) = 2
    /\ Undecided(tmatches, Cur, 2) # {}
    /\ \E i \in RowsIn(tmatches, Cur, 1) :
            tmatches[i].player2_id # None /\ tmatches[i].winner_id # None

\* C20: with one request at a time, no player is in two slots of one round,
\* every player of a round r + 1 slot is the winner of a round r match, and
\* a player who lost a decided match is in no later round and is not the
\* champion.
PlayersOf(m) == {m.player1_id, m.player2_id} \ {None}

Losers(ms, tid, r) ==
    UNION {PlayersOf(ms[i]) \ {ms[i].winner_id} :
                i \in {j \in RowsIn(ms, tid, r) : ms[j].winner_id # None}}

C20_SingleElimination ==
    /\ \A i \in DOMAIN tmatches :
            /\ tmatches[i].player1_id # tmatches[i].player2_id
            /\ \A j \in DOMAIN tmatches :
                    (/\ i # j
                     /\ tmatches[i].tournament_id = tmatches[j].tournament_id
                     /\ tmatches[i].round_num = tmatches[j].round_num)
                    => PlayersOf(tmatches[i]) \cap PlayersOf(tmatches[j]) = {}
    /\ \A j \in DOMAIN tmatches :
            tmatches[j].round_num > 1 =>
                \A p \in PlayersOf(tmatches[j]) :
                    \E i \in RowsIn(tmatches, tmatches[j].tournament_id, tmatches[j].round_num - 1) :
                        tmatches[i].winner_id = p
    /\ \A r \in 1..TopRound(tmatches, Cur) :
            \A p \in Losers(tmatches, Cur, r) :
                /\ \A j \in DOMAIN tmatches :
                        (tmatches[j].tournament_id = Cur /\ tmatches[j].round_num > r)
                            => p \notin PlayersOf(tmatches[j])
                /\ tmatches # <<>> => tournaments[Cur].winner_id # p

\* A concluded five-player tournament: a round-1 loser, two round-2 losers
\* and the loser of the final, none of them the champion.
C20_Witness ==
    /\ tournament_state = 3
    /\ Cardinality(SignedUp) = 5
    /\ Cardinality(Losers(tmatches, Cur, 1)) = 1
    /\ Cardinality(Losers(tmatches, Cur, 2)) = 2
    /\ Cardinality(Losers(tmatches, Cur, 3)) = 1
    /\ tournaments[Cur].winner_id \in SignedUp

\* C17: removing recorded league matches in reverse order of recording
\* restores every player's rating, win count and loss count to the values
\* they had before each match was recorded, hence before the whole
\* sequence; a removal subtracts the stored (post - pre) differences from
\* the two players and takes one win and one loss back.
C17_ReverseRemoval ==
    [][\A match_id \in {m.id : m \in matches} :
            (league' # league /\ remove_match_of(match_id, ADMIN_PASSWORD)) =>
                LET match == CHOOSE m \in matches : m.id = match_id
                    top == Len(history.stack)
                IN /\ player_rows'[match.winner_id] =
                        [elo |-> player_rows[match.winner_id].elo
                                    - (match.winner_post_elo - match.winner_pre_elo),
                         wins |-> player_rows[match.winner_id].wins - 1,
                         losses |-> player_rows[match.winner_id].losses]
                   /\ player_rows'[match.loser_id] =
                        [elo |-> player_rows[match.loser_id].elo
                                    - (match.loser_post_elo - match.loser_pre_elo),
                         wins |-> player_rows[match.loser_id].wins,
                         losses |-> player_rows[match.loser_id].losses - 1]
                   /\ \A p \in LeaguePlayers \ {match.winner_id, match.loser_id} :
                        player_rows'[p] = player_rows[p]
                   /\ (top > 0 /\ history.stack[top].id = match_id) =>
                        player_rows' = history.stack[top].before]_vars

\* MaxLeagueMatches matches were recorded, ratings moved away from the
\* start, and all were removed again newest first: every player is back at
\* the initial rating with no win and no loss.
C17_Witness ==
    /\ history.logged = MaxLeagueMatches
    /\ history.logged >= 2
    /\ history.newest_first
    /\ matches = {}
    /\ player_rows = [p \in LeaguePlayers |-> [elo |-> StartElo, wins |-> 0, losses |-> 0]]

\* C21: a tournament match's winner is written at most once and is always
\* one of its two players: a row that stays in the table changes only by a
\* log_tournament_match step that takes its winner from null to player1 or
\* player2 and leaves its players, round and number alone; a call on a
\* decided match, on a bye or with a winner who is not in the match changes
\* no row; every winner in the table is player1 or player2 of its row.
WinnerIsParticipant ==
    \A i \in DOMAIN tmatches :
        tmatches[i].winner_id # None =>
            tmatches[i].winner_id \in {tmatches[i].player1_id, tmatches[i].player2_id}

RefusedLogCall(tmatch_id, winner_id) ==
    /\ tmatch_id \in DOMAIN tmatches
    /\ \/ tmatches[tmatch_id].winner_id # None
       \/ tmatches[tmatch_id].player2_id = None
       \/ winner_id \notin {tmatches[tmatch_id].player1_id, tmatches[tmatch_id].player2_id}

\* a refused call takes a branch of the handler that writes nothing
RefusedCallsWriteNothing ==
    \A tmatch_id \in DOMAIN tmatches, winner_id \in Players :
        RefusedLogCall(tmatch_id, winner_id) =>
            /\ log_tournament_match_branch(tmatch_id, winner_id) # "log"
            /\ log_tournament_match_response(tmatch_id, winner_id).status >= 400

WinnerWrittenOnce ==
    tmatches' # tmatches =>
        \A i \in DOMAIN tmatches \cap DOMAIN tmatches' :
            tmatches'[i] # tmatches[i] =>
                /\ log_tournament_match
                /\ tmatches[i].winner_id = None
                /\ tmatches'[i].winner_id \in
                        {tmatches[i].player1_id, tmatches[i].player2_id} \ {None}
                /\ [tmatches'[i] EXCEPT !.winner_id = None, !.score = NoneText,
                                        !.match_date = tmatches[i].match_date] = tmatches[i]

C21_WinnerWrittenOnce ==
    /\ []WinnerIsParticipant
    /\ []RefusedCallsWriteNothing
    /\ [][WinnerWrittenOnce]_vars

\* A bye and a match decided by a logged result side by side: calls on
\* either are refused, and so is a call naming an outsider on an open match.
C21_Witness ==
    /\ \E i \in DOMAIN tmatches :
            tmatches[i].player2_id = None /\ RefusedLogCall(i, tmatches[i].player1_id)
    /\ \E i \in DOMAIN tmatches :
            /\ tmatches[i].player2_id # None
            /\ tmatches[i].winner_id = tmatches[i].player2_id
            /\ RefusedLogCall(i, tmatches[i].player1_id)
    /\ \E i \in DOMAIN tmatches, p \in Players :
            /\ tmatches[i].winner_id = None
            /\ RefusedLogCall(i, p)

\* C22: when an ACTIVE tournament is not ended by hand, results keep being
\* recorded for its undecided matches and admin_start_next_round keeps being
\* called, the phase eventually becomes CONCLUDED with a champion: no
\* tournament stays ACTIVE forever.
C22_EventuallyConcluded ==
    (tournament_state = 2) ~>
        (tournament_state = 3 /\ tournaments[Len(tournaments)].winner_id # None)

\* A tournament of three rounds, every match decided, concluded with the
\* winner of its final as champion.
C22_Witness ==
    /\ tournament_state = 3
    /\ \A i \in DOMAIN tmatches : tmatches[i].winner_id # None
    /\ \E i \in RowsIn(tmatches, Cur, 3) : tournaments[Cur].winner_id = tmatches[i].winner_id
    /\ Cardinality(RowsIn(tmatches, Cur, 1)) = 4

\* C23 (as stated): the best-of escalation looks at the paired matches of
\* the new round only: built from a decided round with exactly 3 winners,
\* the single paired match of the new round is best of 5.
AdvanceFrom(n) ==
    /\ data' # data
    /\ tournament_state = 2
    /\ RoundDecided(tmatches, Cur, TopRound(tmatches, Cur))
    /\ Cardinality(RowsIn(tmatches, Cur, TopRound(tmatches, Cur))) = n
    /\ admin_start_next_round

====
